---------------------------- MODULE Spec2Model ----------------------------
(***************************************************************************)
(* Model of src/log.py (xSpark-bench): the coordinator-log parser          *)
(* load_app_data, the worker-log parser load_worker_data with its          *)
(* telemetry merge and final pruning, and the retrieval orchestrator       *)
(* download.                                                               *)
(*                                                                         *)
(* A log line is the sequence of tokens that line.split(" ") yields; the   *)
(* last token of a line carries the line's "\n".  Python dictionaries are  *)
(* functions whose DOMAIN is the set of keys present.  Floats are carried  *)
(* as integers in hundredths, datetimes as integers in ticks of 0.01 ms.    *)
(***************************************************************************)
EXTENDS Integers, Sequences, FiniteSets, TLC

VARIABLES
    app_info,       \* load_app_data: app id -> stage id -> stage record
    dict_to_plot,   \* load_app_data: app id -> the three plot series
    app_id,         \* load_app_data: the current application id
    pc,             \* load_app_data: "scan", "returned" or "aborted"
    exc,            \* load_app_data: the exception that ended the scan
    n_lines,        \* load_app_data: lines read so far
    scen,           \* history: progress of the log through the end-to-end scenario
    declared,       \* history: <<app, stage>> -> duration of the INIT that set start
    last,           \* history: the event the last line read was taken for
    n_init,         \* history: number of INIT lines read so far
    worker_dict,    \* load_worker_data: app id -> stage id -> the four series
    cpu_real,       \* load_worker_data: worker_dict["cpu_real"]
    time_cpu,       \* load_worker_data: worker_dict["time_cpu"]
    worker_keys,    \* load_worker_data: the keys of worker_dict, in insertion order
    w_app_id,       \* load_worker_data: app_id
    sid,            \* load_worker_data: sid
    config,         \* load_worker_data: the configuration read by the telemetry merge
    w_pc,           \* load_worker_data: "worker_log", "cpu_log", "returned" or "aborted"
    w_exc,          \* load_worker_data: the exception that ended the scan
    w_lines,        \* load_worker_data: worker-log lines read so far
    c_lines,        \* load_worker_data: telemetry lines read so far
    w_last,         \* history: the event the last worker-log line read was taken for
    d_pc,           \* download: "master", "loop", "result" or "returned"
    d_idx,          \* download: position of the for loop in instances
    task,           \* download: instance -> state of its download_slave task in the pool
    t_pc,           \* download_slave: instance -> the statement its task is at
    t_left,         \* download_slave: instance -> executor directories still to visit
    attempted,      \* download_slave: <<instance, file, executor>> whose retrieval was called
    fetched,        \* download_slave: <<instance, file, executor>> retrieved
    printed         \* download_slave: <<instance, message>> printed

appVars == <<app_info, dict_to_plot, app_id, pc, exc, n_lines, scen, declared, last, n_init>>

workerVars == <<worker_dict, cpu_real, time_cpu, worker_keys, w_app_id, sid, config,
                w_pc, w_exc, w_lines, c_lines, w_last>>

dlVars == <<d_pc, d_idx, task, t_pc, t_left, attempted, fetched, printed>>

vars == <<appVars, workerVars, dlVars>>

(***************************************************************************)
(* Bounds                                                                  *)
(***************************************************************************)
MaxLines == 5

MaxWorkerLines == 4

MaxCpuLines == 2

\* the worker instances of the cluster, beside the master
NumWorkers == 2

\* multiprocessing.cpu_count() of the machine that downloads
CpuCount == 2

\* the executor directories a worker can hold under work/<app_id>/
MaxExecutors == 2

(***************************************************************************)
(* Python helpers                                                          *)
(***************************************************************************)
\* line[i] for a Python index i (negative counts from the end)
HasIdx(line, i) == IF i >= 0 THEN i < Len(line) ELSE -i <= Len(line)

At(line, i) == IF i >= 0 THEN line[i + 1] ELSE line[Len(line) + i + 1]

\* d[k] = v on a dictionary
Put(d, k, v) == [x \in DOMAIN d \cup {k} |-> IF x = k THEN v ELSE d[x]]

EmptyDict == <<>>

\* tok.rstrip() / tok.replace("\n", "") on the tokens of the vocabulary
StripNL(tok) ==
    CASE tok = "app-1\n" -> "app-1"
      [] tok = "app-2\n" -> "app-2"
      [] tok = "1\n" -> "1"
      [] tok = "2\n" -> "2"
      [] tok = "0.5\n" -> "0.5"
      [] tok = "-45.0\n" -> "-45.0"
      [] tok = "x\n" -> "x"
      [] tok = "s\n" -> "s"
      [] tok = "msg\n" -> "msg"
      [] tok = "(1/1)\n" -> "(1/1)"
      [] OTHER -> tok

\* tok.replace(",", "")
StripComma(tok) ==
    CASE tok = "0," -> "0"
      [] tok = "1," -> "1"
      [] tok = "5," -> "5"
      [] tok = "20.5," -> "20.5"
      [] tok = "x," -> "x"
      [] OTHER -> tok

\* int(tok): only an optionally newline-terminated integer literal converts
CanInt(tok) == StripNL(tok) \in {"0", "1", "2", "5"}

PyInt(tok) ==
    CASE StripNL(tok) = "0" -> 0
      [] StripNL(tok) = "1" -> 1
      [] StripNL(tok) = "2" -> 2
      [] StripNL(tok) = "5" -> 5

\* float(tok), in hundredths
CanFloat(tok) ==
    StripNL(tok) \in {"0", "1", "2", "5", "0.0", "1.0", "1.5", "0.5", "20.5", "-45.0"}

PyFloat(tok) ==
    CASE StripNL(tok) = "0" -> 0
      [] StripNL(tok) = "1" -> 100
      [] StripNL(tok) = "2" -> 200
      [] StripNL(tok) = "5" -> 500
      [] StripNL(tok) = "0.0" -> 0
      [] StripNL(tok) = "1.0" -> 100
      [] StripNL(tok) = "1.5" -> 150
      [] StripNL(tok) = "0.5" -> 50
      [] StripNL(tok) = "20.5" -> 2050
      [] StripNL(tok) = "-45.0" -> -4500

\* int(f) of a float f in hundredths: truncation toward zero
Trunc(f) == IF f >= 0 THEN f \div 100 ELSE -((-f) \div 100)

\* string_to_datetime(tok): ticks of 0.01 ms since 10:00:00; other text raises ValueError
CanDatetime(tok) == tok \in {"10:00:01", "10:00:02"}

string_to_datetime(tok) ==
    CASE tok = "10:00:01" -> 100000
      [] tok = "10:00:02" -> 200000

\* timedelta(milliseconds=f) for f in hundredths, in ticks
timedelta(f) == f

(***************************************************************************)
(* The coordinator log: the lines a log is drawn from                      *)
(***************************************************************************)
D == "16/01/01"

Stamps == {"10:00:01", "10:00:02"}

AppIds == {"app-1", "app-2"}

\* "... INFO TaskSetManager: Finished task 0.0 in stage 1.0 (TID 0) in 5 ms on host (1/1)"
TaskLine(t, stage) ==
    <<D, t, "INFO", "TaskSetManager:", "Finished", "task", "0.0", "in", "stage", stage,
      "(TID", "0)", "in", "5", "ms", "on", "host", "(1/1)\n">>

\* "... INFO StandaloneSchedulerBackend: Connected to Spark cluster with app ID app-1"
ConnectedLine(t, app) ==
    <<D, t, "INFO", "StandaloneSchedulerBackend:", "Connected", "to", "Spark", "cluster",
      "with", "app", "ID", app>>

\* "... INFO DAGScheduler: Submitting 2 missing tasks from ResultStage 0 (MapPartitionsRDD[1] at map)"
SubmittingLine(t, n, stage) ==
    <<D, t, "INFO", "DAGScheduler:", "Submitting", n, "missing", "tasks", "from",
      "ResultStage", stage, "(MapPartitionsRDD[1]", "at", "map)\n">>

\* "... INFO DAGScheduler: ResultStage 0 (count at App.scala:10) finished in 1.0 s"
FinishedLine(t, stage) ==
    <<D, t, "INFO", "DAGScheduler:", "ResultStage", stage, "(count", "at",
      "App.scala:10)", "finished", "in", "1.0", "s\n">>

\* "... INFO ControllerJob: SEND INIT TO EXECUTOR CONTROLLER EID 0, SID 1, TASK 2, DL 5, C 1"
InitLine(t, stage, dl) ==
    <<D, t, "INFO", "ControllerJob:", "SEND", "INIT", "TO", "EXECUTOR", "CONTROLLER",
      "EID", "0,", "SID", stage, "TASK", "2,", "DL", dl, "C", "1\n">>

\* "... INFO ControllerJob: SEND NEEDED CORE TO MASTER app-2"
NeededLine(t, app) ==
    <<D, t, "INFO", "ControllerJob:", "SEND", "NEEDED", "CORE", "TO", "MASTER", app>>

WellFormedLines ==
         {TaskLine(t, s) : t \in Stamps, s \in {"0.0", "1.0"}}
    \cup {ConnectedLine("10:00:01", a) : a \in {"app-1\n", "app-2\n"}}
    \cup {SubmittingLine("10:00:01", n, s) : n \in {"1", "2"}, s \in {"0", "1"}}
    \cup {FinishedLine(t, s) : t \in Stamps, s \in {"0", "1"}}
    \cup {InitLine(t, s, dl) : t \in Stamps, s \in {"0,", "1,"}, dl \in {"5,", "20.5,"}}
    \cup {NeededLine("10:00:01", a) : a \in {"app-1\n", "app-2\n"}}

MalformedLines ==
    { <<"\n">>,                                               \* a blank line
      <<D, "10:00:01", "INFO", "BlockManager:", "msg\n">>,    \* no event
      <<D, "10:00:01", "INFO", "DAGScheduler:", "Submitting", "2\n">>,   \* cut short
      <<D, "10:00:01", "INFO", "ControllerJob:", "msg\n">>,              \* cut short
      <<D, "10:00:01", "INFO", "TaskSetManager:", "Finished", "task\n">>, \* cut short
      TaskLine("??", "0.0"),                                   \* no timestamp
      TaskLine("10:00:01", "x"),                               \* no stage number
      SubmittingLine("10:00:01", "x", "0"),                    \* no task count
      FinishedLine("10:00:01", "x"),                           \* no stage number
      InitLine("10:00:01", "0,", "x,"),                        \* no duration
      InitLine("10:00:01", "x,", "5,") }                       \* no stage number

AppLines == WellFormedLines \cup MalformedLines

(***************************************************************************)
(* load_app_data                                                           *)
(***************************************************************************)
EmptySeries ==
    [dealineTimeStages |-> <<>>, startTimeStages |-> <<>>, finishTimeStages |-> <<>>]

\* the state a handler leaves: the two dictionaries, the current id, the exception raised
Outcome(ai, dp, id, e) == [ai |-> ai, dp |-> dp, id |-> id, exc |-> e]

\* the event a line is taken for by the if/elif chain, or the IndexError of a test
Dispatch(line) ==
    IF ~(Len(line) > 3) THEN "skip"
    ELSE IF At(line, 3) = "TaskSetManager:"
        THEN IF ~HasIdx(line, 4) THEN "IndexError"
             ELSE IF At(line, 4) = "Finished" THEN "task" ELSE "none"
    ELSE IF At(line, 3) = "StandaloneSchedulerBackend:"
        THEN IF ~HasIdx(line, 4) THEN "IndexError"
             ELSE IF At(line, 4) = "Connected" THEN "connected" ELSE "none"
    ELSE IF At(line, 3) = "DAGScheduler:"
        THEN IF ~HasIdx(line, 4) THEN "IndexError"
             ELSE IF At(line, 4) = "Submitting" /\ ~HasIdx(line, 6) THEN "IndexError"
             ELSE IF At(line, 4) = "Submitting" /\ At(line, 6) = "missing" THEN "submitting"
             ELSE IF At(line, -4) = "finished" THEN "finished" ELSE "none"
    ELSE IF At(line, 3) = "ControllerJob:"
        THEN IF ~HasIdx(line, 5) THEN "IndexError"
             ELSE IF At(line, 5) = "INIT" THEN "init"
             ELSE IF At(line, 5) = "NEEDED" /\ At(line, 4) = "SEND" THEN "needed"
             ELSE "none"
    ELSE "none"

\* the stage record with the timestamp appended to its (possibly new) list
AppendTask_AlwaysNew(rec, t) == Put(rec, "tasktimestamps", <<t>>)

AppendTask(rec, t) ==
    Put(rec, "tasktimestamps",
        Append(IF "tasktimestamps" \in DOMAIN rec THEN rec["tasktimestamps"] ELSE <<>>, t))

\* TaskSetManager: Finished
OnTaskFinished(ai, dp, id, line) ==
    IF id \notin DOMAIN ai THEN Outcome(ai, dp, id, "KeyError")
    ELSE IF ~HasIdx(line, 9) THEN Outcome(ai, dp, id, "IndexError")
    ELSE IF ~CanFloat(At(line, 9)) THEN Outcome(ai, dp, id, "ValueError")
    ELSE LET stage_id == Trunc(PyFloat(At(line, 9))) IN
        IF stage_id \notin DOMAIN ai[id] THEN Outcome(ai, dp, id, "KeyError")
        ELSE LET rec == ai[id][stage_id] IN
            IF CanDatetime(At(line, 1))
            THEN Outcome(Put(ai, id, Put(ai[id], stage_id,
                             AppendTask(rec, string_to_datetime(At(line, 1))))),
                         dp, id, "none")
            \* the except branch has set the list to [] before the timestamp fails again
            ELSE Outcome(Put(ai, id, Put(ai[id], stage_id, Put(rec, "tasktimestamps", <<>>))),
                         dp, id, "ValueError")

\* StandaloneSchedulerBackend: Connected
OnConnected(ai, dp, id, line) ==
    LET new == StripNL(At(line, -1)) IN
    Outcome(Put(ai, new, EmptyDict), Put(dp, new, EmptySeries), new, "none")

\* DAGScheduler: Submitting ... missing
OnSubmitting_AllApps(ai, dp, id, line) ==
    IF ~HasIdx(line, 10) THEN Outcome(ai, dp, id, "IndexError")
    ELSE IF ~CanInt(At(line, 10)) \/ ~CanInt(At(line, 5)) THEN Outcome(ai, dp, id, "ValueError")
    ELSE Outcome([a \in DOMAIN ai |->
                     Put(ai[a], PyInt(At(line, 10)), Put(EmptyDict, "tasks", PyInt(At(line, 5))))],
                 dp, id, "none")

OnSubmitting(ai, dp, id, line) ==
    IF ~HasIdx(line, 10) THEN Outcome(ai, dp, id, "IndexError")
    ELSE IF ~CanInt(At(line, 10)) THEN Outcome(ai, dp, id, "ValueError")
    ELSE IF id \notin DOMAIN ai THEN Outcome(ai, dp, id, "KeyError")
    ELSE LET stage_id == PyInt(At(line, 10)) IN
        IF ~CanInt(At(line, 5))
        THEN Outcome(Put(ai, id, Put(ai[id], stage_id, EmptyDict)), dp, id, "ValueError")
        ELSE Outcome(Put(ai, id, Put(ai[id], stage_id, Put(EmptyDict, "tasks", PyInt(At(line, 5))))),
                     dp, id, "none")

\* the test that lets a finish time into finishTimeStages
FinishGuard_NoGuard(series) == TRUE

FinishGuard(series) == Len(series.startTimeStages) > Len(series.finishTimeStages)

\* DAGScheduler: ... finished
OnStageFinished(ai, dp, id, line) ==
    IF id = "" THEN Outcome(ai, dp, id, "none")
    ELSE IF ~CanInt(At(line, 5)) THEN Outcome(ai, dp, id, "ValueError")
    ELSE IF ~CanDatetime(At(line, 1)) THEN Outcome(ai, dp, id, "ValueError")
    ELSE IF id \notin DOMAIN ai THEN Outcome(ai, dp, id, "KeyError")
    ELSE LET stage_id == PyInt(At(line, 5))
             end == string_to_datetime(At(line, 1))
         IN
        IF stage_id \notin DOMAIN ai[id] THEN Outcome(ai, dp, id, "KeyError")
        ELSE LET ai2 == Put(ai, id, Put(ai[id], stage_id, Put(ai[id][stage_id], "end", end))) IN
            IF id \notin DOMAIN dp THEN Outcome(ai2, dp, id, "KeyError")
            ELSE IF FinishGuard(dp[id])
            THEN Outcome(ai2,
                         Put(dp, id, [dp[id] EXCEPT !.finishTimeStages = Append(@, end)]),
                         id, "none")
            ELSE Outcome(ai2, dp, id, "none")

\* the test that lets an INIT event be processed
InitGuard_Always(series) == TRUE

InitGuard(series) == Len(series.dealineTimeStages) < Len(series.finishTimeStages) + 1

\* the deadline of the stage started last
DeadlineOf_FirstStart(starts, deadline_ms) == starts[1] + timedelta(deadline_ms)

DeadlineOf(starts, deadline_ms) == starts[Len(starts)] + timedelta(deadline_ms)

\* ControllerJob: ... INIT
OnControllerInit(ai, dp, id, line) ==
    IF id \notin DOMAIN dp THEN Outcome(ai, dp, id, "KeyError")
    ELSE IF ~InitGuard(dp[id]) THEN Outcome(ai, dp, id, "none")
    ELSE IF ~HasIdx(line, 12) THEN Outcome(ai, dp, id, "IndexError")
    ELSE IF ~CanInt(StripComma(At(line, 12))) THEN Outcome(ai, dp, id, "ValueError")
    ELSE IF ~CanDatetime(At(line, 1)) THEN Outcome(ai, dp, id, "ValueError")
    ELSE IF id \notin DOMAIN ai THEN Outcome(ai, dp, id, "KeyError")
    ELSE LET stage_id == PyInt(StripComma(At(line, 12)))
             start == string_to_datetime(At(line, 1))
         IN
        IF stage_id \notin DOMAIN ai[id] THEN Outcome(ai, dp, id, "KeyError")
        ELSE LET rec2 == Put(ai[id][stage_id], "start", start)
                 starts == Append(dp[id].startTimeStages, start)
                 ai2 == Put(ai, id, Put(ai[id], stage_id, rec2))
                 dp2 == Put(dp, id, [dp[id] EXCEPT !.startTimeStages = starts])
             IN
            IF ~HasIdx(line, 16) THEN Outcome(ai2, dp2, id, "IndexError")
            ELSE IF ~CanFloat(StripComma(At(line, 16))) THEN Outcome(ai2, dp2, id, "ValueError")
            ELSE LET deadline == DeadlineOf(starts, PyFloat(StripComma(At(line, 16)))) IN
                Outcome(Put(ai, id, Put(ai[id], stage_id, Put(rec2, "deadline", deadline))),
                        Put(dp, id, [dp[id] EXCEPT !.startTimeStages = starts,
                                                   !.dealineTimeStages = Append(@, deadline)]),
                        id, "none")

\* ControllerJob: SEND NEEDED
OnSendNeeded(ai, dp, id, line) ==
    LET next_app_id == StripNL(At(line, -1)) IN
    IF id # next_app_id
    THEN Outcome(ai, Put(dp, next_app_id, EmptySeries), next_app_id, "none")
    ELSE Outcome(ai, dp, id, "none")

(***************************************************************************)
(* History of the coordinator log                                          *)
(***************************************************************************)
\* The end-to-end scenario: one registration, one submission of a stage with n tasks,
\* n task-finished lines of that stage, one stage-finished line of that stage.
ScenAt(phase, app, stage, n, k, ts) ==
    [phase |-> phase, app |-> app, stage |-> stage, n |-> n, k |-> k, ts |-> ts]

ScenStart == ScenAt("start", "", 0, 0, 0, 0)

ScenOff == ScenAt("off", "", 0, 0, 0, 0)

\* where the scenario stands once `line` has been read after a log that stood at sc
ScenStep(sc, line) ==
    LET kind == Dispatch(line) IN
    IF sc.phase = "start" /\ kind = "connected"
        THEN ScenAt("registered", StripNL(At(line, -1)), 0, 0, 0, 0)
    ELSE IF /\ sc.phase = "registered" /\ kind = "submitting"
            /\ CanInt(At(line, 10)) /\ CanInt(At(line, 5))
        THEN ScenAt("submitted", sc.app, PyInt(At(line, 10)), PyInt(At(line, 5)), 0, 0)
    ELSE IF /\ sc.phase = "submitted" /\ kind = "task" /\ sc.k < sc.n
            /\ HasIdx(line, 9) /\ CanFloat(At(line, 9)) /\ CanDatetime(At(line, 1))
            /\ Trunc(PyFloat(At(line, 9))) = sc.stage
        THEN ScenAt("submitted", sc.app, sc.stage, sc.n, sc.k + 1, 0)
    ELSE IF /\ sc.phase = "submitted" /\ kind = "finished" /\ sc.k = sc.n
            /\ CanInt(At(line, 5)) /\ CanDatetime(At(line, 1))
            /\ PyInt(At(line, 5)) = sc.stage
        THEN ScenAt("finished", sc.app, sc.stage, sc.n, sc.k, string_to_datetime(At(line, 1)))
    ELSE ScenOff

\* the declared durations of the stages that still have a start
KeepDeclared(dec, ai) ==
    [p \in {q \in DOMAIN dec : /\ q[1] \in DOMAIN ai
                               /\ q[2] \in DOMAIN ai[q[1]]
                               /\ "start" \in DOMAIN ai[q[1]][q[2]]} |-> dec[p]]

(***************************************************************************)
(* The scan of load_app_data: one action per event of the loop body        *)
(***************************************************************************)
InitApp ==
    /\ app_info = EmptyDict
    /\ dict_to_plot = EmptyDict
    /\ app_id = ""
    /\ pc = "scan"
    /\ exc = "none"
    /\ n_lines = 0
    /\ scen = ScenStart
    /\ declared = EmptyDict
    /\ last = "begin"
    /\ n_init = 0

CanRead == pc = "scan" /\ n_lines < MaxLines

\* the handler's outcome becomes the state; an exception ends the scan
Apply(o, line) ==
    /\ app_info' = o.ai
    /\ dict_to_plot' = o.dp
    /\ app_id' = o.id
    /\ exc' = o.exc
    /\ pc' = IF o.exc = "none" THEN "scan" ELSE "aborted"
    /\ n_lines' = n_lines + 1
    /\ scen' = ScenStep(scen, line)
    /\ last' = Dispatch(line)
    /\ n_init' = IF Dispatch(line) = "init" THEN n_init + 1 ELSE n_init
    /\ UNCHANGED <<workerVars, dlVars>>

\* a line of at most 3 tokens, or one that matches no event
Skip(line) ==
    /\ CanRead
    /\ Dispatch(line) \in {"skip", "none"}
    /\ Apply(Outcome(app_info, dict_to_plot, app_id, "none"), line)
    /\ UNCHANGED declared

\* a line too short for the token a test of the if/elif chain reads
DispatchFails(line) ==
    /\ CanRead
    /\ Dispatch(line) = "IndexError"
    /\ Apply(Outcome(app_info, dict_to_plot, app_id, "IndexError"), line)
    /\ UNCHANGED declared

TaskFinished(line) ==
    /\ CanRead
    /\ Dispatch(line) = "task"
    /\ Apply(OnTaskFinished(app_info, dict_to_plot, app_id, line), line)
    /\ UNCHANGED declared

Connected(line) ==
    /\ CanRead
    /\ Dispatch(line) = "connected"
    /\ Apply(OnConnected(app_info, dict_to_plot, app_id, line), line)
    /\ declared' = KeepDeclared(declared, app_info')

Submitting(line) ==
    /\ CanRead
    /\ Dispatch(line) = "submitting"
    /\ Apply(OnSubmitting(app_info, dict_to_plot, app_id, line), line)
    /\ declared' = KeepDeclared(declared, app_info')

StageFinished(line) ==
    /\ CanRead
    /\ Dispatch(line) = "finished"
    /\ Apply(OnStageFinished(app_info, dict_to_plot, app_id, line), line)
    /\ UNCHANGED declared

ControllerInit(line) ==
    /\ CanRead
    /\ Dispatch(line) = "init"
    /\ LET o == OnControllerInit(app_info, dict_to_plot, app_id, line) IN
        /\ Apply(o, line)
        /\ declared' =
            IF o.exc = "none" /\ InitGuard(dict_to_plot[app_id])
            THEN Put(declared, <<app_id, PyInt(StripComma(At(line, 12)))>>,
                     PyFloat(StripComma(At(line, 16))))
            ELSE declared

SendNeeded(line) ==
    /\ CanRead
    /\ Dispatch(line) = "needed"
    /\ Apply(OnSendNeeded(app_info, dict_to_plot, app_id, line), line)
    /\ UNCHANGED declared

\* the file is exhausted: return app_info
Return ==
    /\ pc = "scan"
    /\ pc' = "returned"
    /\ UNCHANGED <<app_info, dict_to_plot, app_id, exc, n_lines, scen, declared, last, n_init>>
    /\ UNCHANGED <<workerVars, dlVars>>

NextApp ==
    \/ \E line \in AppLines :
        \/ Skip(line)
        \/ DispatchFails(line)
        \/ TaskFinished(line)
        \/ Connected(line)
        \/ Submitting(line)
        \/ StageFinished(line)
        \/ ControllerInit(line)
        \/ SendNeeded(line)
    \/ Return

(***************************************************************************)
(* The worker log and the telemetry log                                    *)
(***************************************************************************)
\* "... INFO ControllerExecutor: Created ControllerExecutor: 0 , 1 , 5000 , 2"
WCreatedLine(t, stage, cores) ==
    <<D, t, "INFO", "ControllerExecutor:", "Created", "ControllerExecutor:", "0", ",",
      stage, ",", "5000", ",", cores>>

\* "... INFO Worker: Scaled executorId 0 of appId to app-1 cores 2"
WScaledLine(app) ==
    <<D, "10:00:01", "INFO", "Worker:", "Scaled", "executorId", "0", "of", "appId", "to",
      app, "cores", "2\n">>

\* "... INFO ControllerExecutor: CoreToAllocate: 2"
WCoreLine(v) == <<D, "10:00:01", "INFO", "ControllerExecutor:", "CoreToAllocate:", v>>

\* "... INFO ControllerExecutor: Real: 0.5"
WRealLine(v) == <<D, "10:00:01", "INFO", "ControllerExecutor:", "Real:", v>>

\* "... INFO ControllerExecutor: SP 0.5"
WProgressLine(t, v) == <<D, t, "INFO", "ControllerExecutor:", "SP", v>>

WorkerLines ==
         {WCreatedLine("10:00:01", s, "2\n") : s \in {"0", "1"}}
    \cup {WScaledLine(a) : a \in AppIds}
    \cup {WCoreLine("1\n"), WRealLine("0.5\n")}
    \cup {WProgressLine("10:00:02", v) : v \in {"0.5\n", "-45.0\n"}}
    \cup { <<"\n">>,                                              \* a blank line
           <<D, "10:00:01", "INFO", "Started\n">>,                \* four tokens
           <<D, "10:00:01", "INFO", "Worker:", "msg\n">>,         \* no event
           <<D, "10:00:01", "INFO", "Worker:", "Scaled", "x\n">>, \* cut short
           WCreatedLine("10:00:01", "x", "2\n"),                  \* no stage number
           WCreatedLine("??", "0", "2\n"),                        \* no timestamp
           WProgressLine("10:00:01", "x\n") }                     \* no progress value

\* a telemetry line is the sequence of fields that line.split("    ") yields
CpuDataLine(t, util) == <<t, " all", util, "  0.00\n">>

CpuLines ==
         {CpuDataLine("10:00:01 AM", "  50.00"), CpuDataLine("10:00:02 AM", "  12.30")}
    \cup { <<"Linux 4.4.0 (host) 01/01/2016 _x86_64_ (4 CPU)\n">>,
           <<"\n">>,
           <<"10:00:01 AM", " CPU", " %user", " %idle\n">>,
           <<"Average:", "", "all", "  50.00", "  0.00\n">>,
           <<"garbage\n">>,                                        \* one field
           CpuDataLine("25:00:00 AM", "  50.00"),                  \* no time of day
           CpuDataLine("10:00:01 AM", "  x") }                     \* no utilization

\* line[0].split(" "): the words of a telemetry line's first field
FirstWords(f) ==
    CASE f = "Linux 4.4.0 (host) 01/01/2016 _x86_64_ (4 CPU)\n" ->
            {"Linux", "4.4.0", "(host)", "01/01/2016", "_x86_64_", "(4", "CPU)\n"}
      [] f = "\n" -> {"\n"}
      [] f = "10:00:01 AM" -> {"10:00:01", "AM"}
      [] f = "10:00:02 AM" -> {"10:00:02", "AM"}
      [] f = "25:00:00 AM" -> {"25:00:00", "AM"}
      [] OTHER -> {f}

\* dt.strptime(f, '%I:%M:%S %p').replace(year=2016), in ticks since 10:00:00 AM
CanStrptime(f) == f \in {"10:00:01 AM", "10:00:02 AM"}

strptime(f) ==
    CASE f = "10:00:01 AM" -> 100000
      [] f = "10:00:02 AM" -> 200000

\* float(field) of a telemetry field, in hundredths
CanFloatField(f) == f \in {"  50.00", "  12.30", "  0.00\n"}

FloatField(f) ==
    CASE f = "  50.00" -> 5000
      [] f = "  12.30" -> 1230
      [] f = "  0.00\n" -> 0

Configs == {[HyperThreading |-> FALSE, CoreVM |-> 4], [HyperThreading |-> TRUE, CoreVM |-> 4]}

(***************************************************************************)
(* load_worker_data                                                        *)
(***************************************************************************)
EmptyStage == [cpu |-> <<>>, time |-> <<>>, sp_real |-> <<>>, sp |-> <<>>]

\* the state a handler leaves
WOutcome(wd, keys, id, s, e) == [wd |-> wd, keys |-> keys, id |-> id, sid |-> s, exc |-> e]

\* the event a worker-log line is taken for, or the IndexError of reading line[4]
WDispatch(line, id) ==
    IF ~(Len(line) > 3) THEN "skip"
    ELSE IF ~HasIdx(line, 4) THEN "IndexError"
    ELSE IF At(line, 4) = "Created" /\ id # "" THEN "created"
    ELSE IF At(line, 4) = "Scaled" THEN "scaled"
    ELSE IF id # "" /\ At(line, 4) = "CoreToAllocate:" THEN "core"
    ELSE IF id # "" /\ At(line, 4) = "Real:" THEN "real"
    ELSE IF id # "" /\ At(line, 4) = "SP" THEN "progress"
    ELSE "none"

\* whether an allocation-created event opens a new stage entry
NewStage_Always(s, v) == TRUE

NewStage(s, v) == s # v

\* line[4] == "Created" and app_id != ""
OnCreated(wd, keys, id, s, line) ==
    IF ~HasIdx(line, 8) THEN WOutcome(wd, keys, id, s, "IndexError")
    ELSE IF ~CanInt(At(line, 8)) THEN WOutcome(wd, keys, id, s, "ValueError")
    ELSE LET v == PyInt(At(line, 8)) IN
        IF NewStage(s, v) /\ id \notin DOMAIN wd THEN WOutcome(wd, keys, id, v, "KeyError")
        ELSE LET wd2 == IF NewStage(s, v) THEN Put(wd, id, Put(wd[id], v, EmptyStage)) ELSE wd IN
            IF id \notin DOMAIN wd2 \/ v \notin DOMAIN wd2[id]
            THEN WOutcome(wd2, keys, id, v, "KeyError")
            ELSE IF ~CanFloat(StripNL(At(line, -1)))
            THEN WOutcome(wd2, keys, id, v, "ValueError")
            ELSE LET st == wd2[id][v]
                     st2 == [st EXCEPT !.cpu = Append(@, PyFloat(StripNL(At(line, -1)))),
                                       !.sp_real = Append(@, 0)]
                 IN
                IF ~CanDatetime(At(line, 1))
                THEN WOutcome(Put(wd2, id, Put(wd2[id], v, st2)), keys, id, v, "ValueError")
                ELSE WOutcome(Put(wd2, id, Put(wd2[id], v,
                                  [st2 EXCEPT !.time = Append(@, string_to_datetime(At(line, 1))),
                                              !.sp = Append(@, 0)])),
                              keys, id, v, "none")

\* the keys of a dictionary after d[k] = v
KeysWith(keys, k) ==
    IF \E i \in 1..Len(keys) : keys[i] = k THEN keys ELSE Append(keys, k)

\* line[4] == "Scaled"
OnScaled(wd, keys, id, s, line) ==
    IF ~HasIdx(line, 10) THEN WOutcome(wd, keys, id, s, "IndexError")
    ELSE IF id = "" \/ id # At(line, 10)
    THEN LET next_app_id == At(line, 10) IN
         WOutcome(Put(wd, next_app_id, EmptyDict), KeysWith(keys, next_app_id),
                  next_app_id, s, "none")
    ELSE WOutcome(wd, keys, id, s, "none")

\* app_id != "" and line[4] == "CoreToAllocate:"
OnCoreToAllocate(wd, keys, id, s, line) ==
    IF id \notin DOMAIN wd \/ s \notin DOMAIN wd[id] THEN WOutcome(wd, keys, id, s, "KeyError")
    ELSE IF ~CanFloat(StripNL(At(line, -1))) THEN WOutcome(wd, keys, id, s, "ValueError")
    ELSE WOutcome(Put(wd, id, Put(wd[id], s,
                      [wd[id][s] EXCEPT !.cpu = Append(@, PyFloat(StripNL(At(line, -1))))])),
                  keys, id, s, "none")

\* app_id != "" and line[4] == "Real:"
OnReal(wd, keys, id, s, line) ==
    IF id \notin DOMAIN wd \/ s \notin DOMAIN wd[id] THEN WOutcome(wd, keys, id, s, "KeyError")
    ELSE IF ~CanFloat(StripNL(At(line, -1))) THEN WOutcome(wd, keys, id, s, "ValueError")
    ELSE WOutcome(Put(wd, id, Put(wd[id], s,
                      [wd[id][s] EXCEPT !.sp_real = Append(@, PyFloat(StripNL(At(line, -1))))])),
                  keys, id, s, "none")

\* the progress value stored: a negative one is a percentage
Normalized(progress) == IF progress < 0 THEN (-progress) \div 100 ELSE progress

\* app_id != "" and line[4] == "SP"
OnProgress(wd, keys, id, s, line) ==
    IF id \notin DOMAIN wd \/ s \notin DOMAIN wd[id] THEN WOutcome(wd, keys, id, s, "KeyError")
    ELSE IF ~CanDatetime(At(line, 1)) THEN WOutcome(wd, keys, id, s, "ValueError")
    ELSE LET st2 == [wd[id][s] EXCEPT !.time = Append(@, string_to_datetime(At(line, 1)))] IN
        IF ~CanFloat(StripNL(At(line, -1)))
        THEN WOutcome(Put(wd, id, Put(wd[id], s, st2)), keys, id, s, "ValueError")
        ELSE WOutcome(Put(wd, id, Put(wd[id], s,
                          [st2 EXCEPT !.sp = Append(@, Normalized(PyFloat(StripNL(At(line, -1)))))])),
                      keys, id, s, "none")

\* whether a telemetry line is a sample, or the IndexError of reading line[1]
CpuDispatch(line) ==
    IF "Linux" \in FirstWords(At(line, 0)) \/ "\n" \in FirstWords(At(line, 0)) THEN "skip"
    ELSE IF ~HasIdx(line, 1) THEN "IndexError"
    ELSE IF At(line, 1) # " CPU" /\ At(line, 0) # "Average:" THEN "sample" ELSE "skip"

\* float('{0:.2f}'.format(x / 100)) for x in hundredths
Round2Div100(x) == (x + 50) \div 100

\* the utilization in cores
CpuReal(raw, cfg) ==
    IF cfg.HyperThreading THEN Round2Div100(raw * cfg.CoreVM * 2)
    ELSE Round2Div100(raw * cfg.CoreVM)

\* the keys of worker_dict that the final loop keeps: those whose value is not empty
KeepKey_All(k) == TRUE

KeepKey(k) ==
    IF k = "cpu_real" THEN Len(cpu_real) > 0
    ELSE IF k = "time_cpu" THEN Len(time_cpu) > 0
    ELSE Cardinality(DOMAIN worker_dict[k]) > 0

InitWorker ==
    /\ worker_dict = EmptyDict
    /\ cpu_real = <<>>
    /\ time_cpu = <<>>
    /\ worker_keys = <<"cpu_real", "time_cpu">>
    /\ w_app_id = ""
    /\ sid = -1
    /\ w_pc = "worker_log"
    /\ w_exc = "none"
    /\ w_lines = 0
    /\ c_lines = 0
    /\ w_last = "begin"

CanReadWorker == w_pc = "worker_log" /\ w_lines < MaxWorkerLines

WApply(o, line) ==
    /\ worker_dict' = o.wd
    /\ worker_keys' = o.keys
    /\ w_app_id' = o.id
    /\ sid' = o.sid
    /\ w_exc' = o.exc
    /\ w_pc' = IF o.exc = "none" THEN "worker_log" ELSE "aborted"
    /\ w_lines' = w_lines + 1
    /\ w_last' = WDispatch(line, w_app_id)
    /\ UNCHANGED <<cpu_real, time_cpu, config, c_lines>>
    /\ UNCHANGED <<appVars, dlVars>>

\* a line of at most 3 tokens, or one that no test takes
WSkip(line) ==
    /\ CanReadWorker
    /\ WDispatch(line, w_app_id) \in {"skip", "none"}
    /\ WApply(WOutcome(worker_dict, worker_keys, w_app_id, sid, "none"), line)

\* a line of 4 tokens: line[4] does not exist
WDispatchFails(line) ==
    /\ CanReadWorker
    /\ WDispatch(line, w_app_id) = "IndexError"
    /\ WApply(WOutcome(worker_dict, worker_keys, w_app_id, sid, "IndexError"), line)

Created(line) ==
    /\ CanReadWorker
    /\ WDispatch(line, w_app_id) = "created"
    /\ WApply(OnCreated(worker_dict, worker_keys, w_app_id, sid, line), line)

Scaled(line) ==
    /\ CanReadWorker
    /\ WDispatch(line, w_app_id) = "scaled"
    /\ WApply(OnScaled(worker_dict, worker_keys, w_app_id, sid, line), line)

CoreToAllocate(line) ==
    /\ CanReadWorker
    /\ WDispatch(line, w_app_id) = "core"
    /\ WApply(OnCoreToAllocate(worker_dict, worker_keys, w_app_id, sid, line), line)

Real(line) ==
    /\ CanReadWorker
    /\ WDispatch(line, w_app_id) = "real"
    /\ WApply(OnReal(worker_dict, worker_keys, w_app_id, sid, line), line)

Progress(line) ==
    /\ CanReadWorker
    /\ WDispatch(line, w_app_id) = "progress"
    /\ WApply(OnProgress(worker_dict, worker_keys, w_app_id, sid, line), line)

\* the worker log is exhausted: the telemetry log is opened
EndOfWorkerLog ==
    /\ w_pc = "worker_log"
    /\ w_pc' = "cpu_log"
    /\ UNCHANGED <<worker_dict, cpu_real, time_cpu, worker_keys, w_app_id, sid, config,
                   w_exc, w_lines, c_lines, w_last>>
    /\ UNCHANGED <<appVars, dlVars>>

CanReadCpu == w_pc = "cpu_log" /\ c_lines < MaxCpuLines

\* a header line, a blank line, the column line or the Average line
CpuSkip(line) ==
    /\ CanReadCpu
    /\ CpuDispatch(line) = "skip"
    /\ c_lines' = c_lines + 1
    /\ UNCHANGED <<worker_dict, cpu_real, time_cpu, worker_keys, w_app_id, sid, config,
                   w_pc, w_exc, w_lines, w_last>>
    /\ UNCHANGED <<appVars, dlVars>>

\* a data line, or a line taken for one
CpuSample(line) ==
    /\ CanReadCpu
    /\ CpuDispatch(line) \in {"sample", "IndexError"}
    /\ c_lines' = c_lines + 1
    /\ IF CpuDispatch(line) = "IndexError"
       THEN w_exc' = "IndexError" /\ UNCHANGED <<cpu_real, time_cpu>>
       ELSE IF ~CanStrptime(At(line, 0))
       THEN w_exc' = "ValueError" /\ UNCHANGED <<cpu_real, time_cpu>>
       ELSE /\ time_cpu' = Append(time_cpu, strptime(At(line, 0)))
            /\ IF ~HasIdx(line, 2)
               THEN w_exc' = "IndexError" /\ UNCHANGED cpu_real
               ELSE IF ~CanFloatField(At(line, 2))
               THEN w_exc' = "ValueError" /\ UNCHANGED cpu_real
               ELSE /\ cpu_real' = Append(cpu_real, CpuReal(FloatField(At(line, 2)), config))
                    /\ w_exc' = "none"
    /\ w_pc' = IF w_exc' = "none" THEN "cpu_log" ELSE "aborted"
    /\ UNCHANGED <<worker_dict, worker_keys, w_app_id, sid, config, w_lines, w_last>>
    /\ UNCHANGED <<appVars, dlVars>>

\* the telemetry log is exhausted: the keys with an empty value are deleted (the loop
\* variable is app_id itself) and worker_dict is returned
PruneAndReturn ==
    /\ w_pc = "cpu_log"
    /\ w_pc' = "returned"
    /\ worker_keys' = SelectSeq(worker_keys, KeepKey)
    /\ worker_dict' = [k \in {a \in DOMAIN worker_dict : KeepKey(a)} |-> worker_dict[k]]
    /\ w_app_id' = worker_keys[Len(worker_keys)]
    /\ UNCHANGED <<cpu_real, time_cpu, sid, config, w_exc, w_lines, c_lines, w_last>>
    /\ UNCHANGED <<appVars, dlVars>>

NextWorker ==
    \/ \E line \in WorkerLines :
        \/ WSkip(line)
        \/ WDispatchFails(line)
        \/ Created(line)
        \/ Scaled(line)
        \/ CoreToAllocate(line)
        \/ Real(line)
        \/ Progress(line)
    \/ EndOfWorkerLog
    \/ \E line \in CpuLines :
        \/ CpuSkip(line)
        \/ CpuSample(line)
    \/ PruneAndReturn

(***************************************************************************)
(* download and download_slave                                             *)
(***************************************************************************)
\* instance 0 is the master (public_dns_name == master_dns), the others are workers
Master == 0

Instances == [k \in 1..(NumWorkers + 1) |-> k - 1]

WorkerInstances == 1..NumWorkers

\* the tasks a pool thread is running
InProgress == {i \in WorkerInstances : task[i] = "running"}

InitDownload ==
    /\ d_pc = "master"
    /\ d_idx = 1
    /\ task = [i \in WorkerInstances |-> "none"]
    /\ t_pc = [i \in WorkerInstances |-> "none"]
    /\ t_left = [i \in WorkerInstances |-> 0]
    /\ attempted = {}
    /\ fetched = {}
    /\ printed = {}

\* download_master returns the output folder and the application id
DownloadMaster ==
    /\ d_pc = "master"
    /\ d_pc' = "loop"
    /\ UNCHANGED <<d_idx, task, t_pc, t_left, attempted, fetched, printed>>
    /\ UNCHANGED <<appVars, workerVars>>

\* for i in instances: the master is passed over
SkipMaster ==
    /\ d_pc = "loop"
    /\ d_idx <= Len(Instances)
    /\ Instances[d_idx] = Master
    /\ d_idx' = d_idx + 1
    /\ UNCHANGED <<d_pc, task, t_pc, t_left, attempted, fetched, printed>>
    /\ UNCHANGED <<appVars, workerVars>>

\* what download does after executor.submit: it waits for the task's result
AfterSubmit == "result"

\* worker = executor.submit(download_slave, i, ...)
Submit ==
    /\ d_pc = "loop"
    /\ d_idx <= Len(Instances)
    /\ Instances[d_idx] # Master
    /\ task' = [task EXCEPT ![Instances[d_idx]] = "queued"]
    /\ d_pc' = AfterSubmit
    /\ d_idx' = IF AfterSubmit = "result" THEN d_idx ELSE d_idx + 1
    /\ UNCHANGED <<t_pc, t_left, attempted, fetched, printed>>
    /\ UNCHANGED <<appVars, workerVars>>

\* a thread of the pool takes a queued task; the pool has cpu_count() threads
PoolStart(i) ==
    /\ task[i] = "queued"
    /\ Cardinality(InProgress) < CpuCount
    /\ task' = [task EXCEPT ![i] = "running"]
    /\ t_pc' = [t_pc EXCEPT ![i] = "worker_log"]
    /\ UNCHANGED <<d_pc, d_idx, t_left, attempted, fetched, printed>>
    /\ UNCHANGED <<appVars, workerVars>>

\* ssh_client.get_file(worker_log, ...): the remote file exists or not
GetWorkerLog(i) ==
    /\ task[i] = "running" /\ t_pc[i] = "worker_log"
    /\ attempted' = attempted \cup {<<i, "worker_log", 0>>}
    /\ \E exists \in BOOLEAN :
        IF exists
        THEN /\ fetched' = fetched \cup {<<i, "worker_log", 0>>}
             /\ t_pc' = [t_pc EXCEPT ![i] = "sar_log"]
             /\ UNCHANGED printed
        ELSE /\ printed' = printed \cup {<<i, "worker log not found">>}
             /\ t_pc' = [t_pc EXCEPT ![i] = "listdir"]
             /\ UNCHANGED fetched
    /\ UNCHANGED <<d_pc, d_idx, task, t_left>>
    /\ UNCHANGED <<appVars, workerVars>>

\* ssh_client.get_file("sar-<ip>.log", ...)
GetSarLog(i) ==
    /\ task[i] = "running" /\ t_pc[i] = "sar_log"
    /\ attempted' = attempted \cup {<<i, "sar_log", 0>>}
    /\ \E exists \in BOOLEAN :
        IF exists
        THEN fetched' = fetched \cup {<<i, "sar_log", 0>>} /\ UNCHANGED printed
        ELSE printed' = printed \cup {<<i, "worker log not found">>} /\ UNCHANGED fetched
    /\ t_pc' = [t_pc EXCEPT ![i] = "listdir"]
    /\ UNCHANGED <<d_pc, d_idx, task, t_left>>
    /\ UNCHANGED <<appVars, workerVars>>

\* ssh_client.listdir(work/<app_id>/): the directory exists, with n executors, or not
ListExecutors(i) ==
    /\ task[i] = "running" /\ t_pc[i] = "listdir"
    /\ \/ \E n \in 0..MaxExecutors :
            /\ t_left' = [t_left EXCEPT ![i] = n]
            /\ t_pc' = [t_pc EXCEPT ![i] = "stderr"]
            /\ UNCHANGED printed
       \/ /\ printed' = printed \cup {<<i, "stderr not found">>}
          /\ t_pc' = [t_pc EXCEPT ![i] = "return"]
          /\ UNCHANGED t_left
    /\ UNCHANGED <<d_pc, d_idx, task, attempted, fetched>>
    /\ UNCHANGED <<appVars, workerVars>>

\* one turn of the loop over the executor directories: get_file(.../stderr)
GetStderr(i) ==
    /\ task[i] = "running" /\ t_pc[i] = "stderr"
    /\ IF t_left[i] = 0
       THEN /\ t_pc' = [t_pc EXCEPT ![i] = "return"]
            /\ UNCHANGED <<t_left, attempted, fetched, printed>>
       ELSE /\ attempted' = attempted \cup {<<i, "stderr", t_left[i]>>}
            /\ \E exists \in BOOLEAN :
                IF exists
                THEN /\ fetched' = fetched \cup {<<i, "stderr", t_left[i]>>}
                     /\ t_left' = [t_left EXCEPT ![i] = @ - 1]
                     /\ UNCHANGED <<t_pc, printed>>
                ELSE /\ printed' = printed \cup {<<i, "stderr not found">>}
                     /\ t_pc' = [t_pc EXCEPT ![i] = "return"]
                     /\ UNCHANGED <<t_left, fetched>>
    /\ UNCHANGED <<d_pc, d_idx, task>>
    /\ UNCHANGED <<appVars, workerVars>>

\* return output_folder: the task's future is done, its thread is free
SlaveReturn(i) ==
    /\ task[i] = "running" /\ t_pc[i] = "return"
    /\ task' = [task EXCEPT ![i] = "done"]
    /\ t_pc' = [t_pc EXCEPT ![i] = "none"]
    /\ UNCHANGED <<d_pc, d_idx, t_left, attempted, fetched, printed>>
    /\ UNCHANGED <<appVars, workerVars>>

\* output_folder = worker.result(): blocks until the task just submitted is done
Result ==
    /\ d_pc = "result"
    /\ task[Instances[d_idx]] = "done"
    /\ d_pc' = "loop"
    /\ d_idx' = d_idx + 1
    /\ UNCHANGED <<task, t_pc, t_left, attempted, fetched, printed>>
    /\ UNCHANGED <<appVars, workerVars>>

\* the with block ends once every submitted task is done; return output_folder
DownloadReturn ==
    /\ d_pc = "loop"
    /\ d_idx > Len(Instances)
    /\ \A i \in WorkerInstances : task[i] \in {"none", "done"}
    /\ d_pc' = "returned"
    /\ UNCHANGED <<d_idx, task, t_pc, t_left, attempted, fetched, printed>>
    /\ UNCHANGED <<appVars, workerVars>>

NextDownload ==
    \/ DownloadMaster
    \/ SkipMaster
    \/ Submit
    \/ \E i \in WorkerInstances :
        \/ PoolStart(i)
        \/ GetWorkerLog(i)
        \/ GetSarLog(i)
        \/ ListExecutors(i)
        \/ GetStderr(i)
        \/ SlaveReturn(i)
    \/ Result
    \/ DownloadReturn

(***************************************************************************)
(* Specifications                                                          *)
(***************************************************************************)
\* the state after construction: no call has read a line yet
Init ==
    /\ InitApp
    /\ InitWorker
    /\ config \in Configs
    /\ InitDownload

\* the coordinator-log parser
Spec == Init /\ [][NextApp]_vars

\* the worker-log parser with its telemetry merge
SpecWorker == Init /\ [][NextWorker]_vars

\* the retrieval orchestrator
SpecDownload == Init /\ [][NextDownload]_vars


(***************************************************************************)
(* Properties of load_app_data                                             *)
(***************************************************************************)
\* C1: for every application, after every line read, the plot series satisfy
\* len(finishTimeStages) <= len(startTimeStages) <= len(dealineTimeStages) + 1.
C1_SeriesOrdered ==
    \A a \in DOMAIN dict_to_plot :
        /\ Len(dict_to_plot[a].finishTimeStages) <= Len(dict_to_plot[a].startTimeStages)
        /\ Len(dict_to_plot[a].startTimeStages) <= Len(dict_to_plot[a].dealineTimeStages) + 1

\* C1 witness: an application with two starts recorded and one finish
C1_Witness ==
    \E a \in DOMAIN dict_to_plot :
        /\ Len(dict_to_plot[a].startTimeStages) = 2
        /\ Len(dict_to_plot[a].finishTimeStages) = 1

\* C2: load_app_data never aborts: whatever the lines, the scan is never ended by an
\* exception (a malformed or dangling line is skipped and the scan goes on).
C2_NeverAborts == pc # "aborted"

\* C3 as claimed: after the end-to-end scenario (registration of A, submission of stage s
\* with n tasks, n task-finished lines, one stage-finished line at ts, no INIT) the stage
\* record of (A, s) holds n, n task timestamps and end = ts, and finishTimeStages = [ts].
C3_ScenarioFinishRecorded ==
    scen.phase = "finished" =>
        /\ pc # "aborted"
        /\ scen.app \in DOMAIN app_info
        /\ scen.stage \in DOMAIN app_info[scen.app]
        /\ DOMAIN app_info[scen.app][scen.stage] = {"tasks", "tasktimestamps", "end"}
        /\ app_info[scen.app][scen.stage]["tasks"] = scen.n
        /\ Len(app_info[scen.app][scen.stage]["tasktimestamps"]) = scen.n
        /\ app_info[scen.app][scen.stage]["end"] = scen.ts
        /\ dict_to_plot[scen.app].finishTimeStages = <<scen.ts>>

\* C3 as amended: after the end-to-end scenario the stage record of (A, s) holds n, n task
\* timestamps and end = ts, and the three plot series of A are empty: no INIT event
\* recorded a start, so the finish time is not appended to finishTimeStages.
C3_ScenarioRecord ==
    scen.phase = "finished" =>
        /\ pc # "aborted"
        /\ scen.app \in DOMAIN app_info
        /\ scen.stage \in DOMAIN app_info[scen.app]
        /\ DOMAIN app_info[scen.app][scen.stage] = {"tasks", "tasktimestamps", "end"}
        /\ app_info[scen.app][scen.stage]["tasks"] = scen.n
        /\ Len(app_info[scen.app][scen.stage]["tasktimestamps"]) = scen.n
        /\ app_info[scen.app][scen.stage]["end"] = scen.ts
        /\ dict_to_plot[scen.app] = EmptySeries

\* C3 witness: the scenario with two tasks has been read to its end and the records returned
C3_Witness == scen.phase = "finished" /\ scen.n = 2 /\ pc = "returned"

\* C4: the application record only accumulates: in every step that does not abort, an
\* application, a stage and a field that were recorded are still recorded afterwards,
\* and the task timestamps recorded so far are kept.
C4_OnlyAccumulates ==
    [][pc' # "aborted" =>
        \A a \in DOMAIN app_info :
            /\ a \in DOMAIN app_info'
            /\ \A s \in DOMAIN app_info[a] :
                /\ s \in DOMAIN app_info'[a]
                /\ \A f \in DOMAIN app_info[a][s] :
                    /\ f \in DOMAIN app_info'[a][s]
                    /\ f = "tasktimestamps" =>
                        /\ Len(app_info[a][s][f]) <= Len(app_info'[a][s][f])
                        /\ SubSeq(app_info'[a][s][f], 1, Len(app_info[a][s][f]))
                               = app_info[a][s][f]]_vars

\* C5: a stage is never closed twice: once end is set for a stage of an application, no
\* step that keeps the stage's end changes its value.
C5_ClosedOnce ==
    [][pc' # "aborted" =>
        \A a \in DOMAIN app_info : \A s \in DOMAIN app_info[a] :
            ( /\ "end" \in DOMAIN app_info[a][s]
              /\ a \in DOMAIN app_info'
              /\ s \in DOMAIN app_info'[a]
              /\ "end" \in DOMAIN app_info'[a][s] )
            => app_info'[a][s]["end"] = app_info[a][s]["end"]]_vars

\* C6: for every stage that has a task count and a task-timestamp list, the number of
\* recorded task timestamps is at most the task count.
C6_TimestampsWithinTasks ==
    \A a \in DOMAIN app_info : \A s \in DOMAIN app_info[a] :
        {"tasks", "tasktimestamps"} \subseteq DOMAIN app_info[a][s]
        => Len(app_info[a][s]["tasktimestamps"]) <= app_info[a][s]["tasks"]

\* C7: while the scan has not been ended by an exception, a stage record has a start
\* exactly when it has a deadline, and then deadline = start + the duration declared by
\* the INIT event that set that start (so deadline >= start for a non-negative duration).
C7_DeadlineFromStart ==
    pc # "aborted" =>
        \A a \in DOMAIN app_info : \A s \in DOMAIN app_info[a] :
            LET rec == app_info[a][s] IN
            /\ "start" \in DOMAIN rec <=> "deadline" \in DOMAIN rec
            /\ "start" \in DOMAIN rec =>
                /\ <<a, s>> \in DOMAIN declared
                /\ rec["deadline"] = rec["start"] + timedelta(declared[<<a, s>>])
                /\ declared[<<a, s>>] >= 0 => rec["deadline"] >= rec["start"]

\* C7 witness: a second INIT event of an application has set a stage's start and deadline
C7_Witness ==
    /\ pc # "aborted"
    /\ \E a \in DOMAIN app_info : \E s \in DOMAIN app_info[a] :
        /\ {"start", "deadline"} \subseteq DOMAIN app_info[a][s]
        /\ Len(dict_to_plot[a].startTimeStages) = 2
        /\ app_info[a][s]["start"] = dict_to_plot[a].startTimeStages[2]
        /\ app_info[a][s]["start"] # dict_to_plot[a].startTimeStages[1]

(***************************************************************************)
(* Properties of load_worker_data                                          *)
(***************************************************************************)
\* C8: in the mapping load_worker_data returns no application id maps to an empty stage
\* mapping: the final step drops every application that has no stage entry and keeps
\* every application that has one, with its series unchanged.
C8_EmptyApplicationsPruned ==
    [][(w_pc = "cpu_log" /\ w_pc' = "returned") =>
        /\ \A a \in DOMAIN worker_dict' : DOMAIN worker_dict'[a] # {}
        /\ \A a \in DOMAIN worker_dict :
            IF DOMAIN worker_dict[a] = {}
            THEN a \notin DOMAIN worker_dict'
            ELSE a \in DOMAIN worker_dict' /\ worker_dict'[a] = worker_dict[a]]_vars

\* C8 witness: the result holds an application with a stage entry, and the application
\* scaled to last, which had none, is gone from it
C8_Witness ==
    /\ w_pc = "returned"
    /\ w_app_id \in AppIds
    /\ w_app_id \notin DOMAIN worker_dict
    /\ \E a \in DOMAIN worker_dict : \E s \in DOMAIN worker_dict[a] :
        Len(worker_dict[a][s].cpu) > 0

(***************************************************************************)
(* Properties of download                                                  *)
(***************************************************************************)
\* C10: the download tasks of the worker instances run concurrently in the pool: never
\* more tasks are in progress than the pool has threads, and while a task is in progress,
\* a thread is free and a worker instance has no task yet, the loop over the instances can
\* go on to submit it (so that two tasks come to be in progress at the same time).
C10_RunConcurrently ==
    /\ Cardinality(InProgress) <= CpuCount
    /\ ( /\ InProgress # {}
         /\ Cardinality(InProgress) < CpuCount
         /\ \E i \in WorkerInstances : task[i] = "none" )
       => ENABLED (SkipMaster \/ Submit)

\* what the code does instead: no two tasks are ever in progress together
DownloadsOneByOne == Cardinality(InProgress) <= 1

\* C11: a missing remote file of a worker node does not stop the retrieval of the node's
\* other files: once the node's task is done, its telemetry log has been attempted (also
\* when its controller log was the missing one) and so has the stderr file of every
\* executor directory that was still to be read when a stderr file was missing.
C11_MissingFileTolerated ==
    \A i \in WorkerInstances :
        task[i] = "done" =>
            /\ <<i, "worker_log", 0>> \in attempted
            /\ <<i, "sar_log", 0>> \in attempted
            /\ \A k \in 1..t_left[i] : <<i, "stderr", k>> \in attempted

\* the part of C11 the code keeps: a missing file never keeps download from going on to
\* the next node, and every node's controller log is attempted before download returns
MissingFileKeepsOtherNodes ==
    d_pc = "returned" =>
        \A i \in WorkerInstances : task[i] = "done" /\ <<i, "worker_log", 0>> \in attempted

(***************************************************************************)
(* Events of load_app_data that meet a missing record                      *)
(***************************************************************************)
\* C12: a task-finished line for stage s of the current application (one that has an
\* application record) does not end the scan and leaves the stage with a task-timestamp
\* list; when the stage had no record, or a record without a list, the list is afterwards
\* exactly [the line's timestamp].
C12_LazyTaskList ==
    [][\A line \in AppLines :
        ( /\ TaskFinished(line)
          /\ app_id \in DOMAIN app_info
          /\ HasIdx(line, 9) /\ CanFloat(At(line, 9)) /\ CanDatetime(At(line, 1)) )
        => LET s == Trunc(PyFloat(At(line, 9)))
               t == string_to_datetime(At(line, 1))
           IN
            /\ pc' # "aborted"
            /\ s \in DOMAIN app_info'[app_id]
            /\ "tasktimestamps" \in DOMAIN app_info'[app_id][s]
            /\ ( \/ s \notin DOMAIN app_info[app_id]
                 \/ "tasktimestamps" \notin DOMAIN app_info[app_id][s] )
               => app_info'[app_id][s]["tasktimestamps"] = <<t>>]_vars

\* the half of C12 the code keeps: a stage record without a list gets the list [timestamp]
RecordWithoutListGetsList ==
    [][\A line \in AppLines :
        ( /\ TaskFinished(line)
          /\ app_id \in DOMAIN app_info
          /\ HasIdx(line, 9) /\ CanFloat(At(line, 9)) /\ CanDatetime(At(line, 1))
          /\ Trunc(PyFloat(At(line, 9))) \in DOMAIN app_info[app_id]
          /\ "tasktimestamps" \notin DOMAIN app_info[app_id][Trunc(PyFloat(At(line, 9)))] )
        => /\ pc' # "aborted"
           /\ app_info'[app_id][Trunc(PyFloat(At(line, 9)))]["tasktimestamps"]
                  = <<string_to_datetime(At(line, 1))>>]_vars

\* C13: a SEND NEEDED line naming an application B other than the current one makes B the
\* current application and gives B a stage map and plot series only if it has none: what
\* B already has is left unchanged, and what it lacks is created empty.
C13_HandOffInitializesIfAbsent ==
    [][\A line \in AppLines :
        (SendNeeded(line) /\ StripNL(At(line, -1)) # app_id)
        => LET B == StripNL(At(line, -1)) IN
            /\ app_id' = B
            /\ B \in DOMAIN app_info'
            /\ B \in DOMAIN dict_to_plot'
            /\ app_info'[B] = (IF B \in DOMAIN app_info THEN app_info[B] ELSE EmptyDict)
            /\ dict_to_plot'[B] =
                   (IF B \in DOMAIN dict_to_plot THEN dict_to_plot[B] ELSE EmptySeries)]_vars

\* the part of C13 the code keeps: the hand-off makes B current and B has plot series
HandOffSwitches ==
    [][\A line \in AppLines :
        (SendNeeded(line) /\ StripNL(At(line, -1)) # app_id)
        => /\ app_id' = StripNL(At(line, -1))
           /\ pc' # "aborted"
           /\ app_info' = app_info
           /\ app_id' \in DOMAIN dict_to_plot']_vars

(***************************************************************************)
(* Frame of the events of load_app_data                                    *)
(***************************************************************************)
\* C14: an INIT line is processed only while the current application has fewer deadlines
\* recorded than finishes + 1: an INIT line read while a stage of the current application
\* is started and not finished (more starts than finishes recorded) changes no stage
\* record and no plot series, and after every step (the log starts with no series at all)
\* len(startTimeStages) minus len(finishTimeStages) is 0 or 1 for every application.
C14_InitOnlyBetweenStages ==
    [][/\ \A a \in DOMAIN dict_to_plot' :
            Len(dict_to_plot'[a].startTimeStages) - Len(dict_to_plot'[a].finishTimeStages)
                \in {0, 1}
       /\ ( /\ n_lines' = n_lines + 1
            /\ last' = "init"
            /\ app_id \in DOMAIN dict_to_plot
            /\ \/ Len(dict_to_plot[app_id].dealineTimeStages)
                      >= Len(dict_to_plot[app_id].finishTimeStages) + 1
               \/ Len(dict_to_plot[app_id].startTimeStages)
                      > Len(dict_to_plot[app_id].finishTimeStages) )
          => /\ app_info' = app_info
             /\ dict_to_plot' = dict_to_plot
             /\ pc' = "scan"]_vars

\* C14 witness: a log of a registration, a submission and two INIT lines has been read,
\* and only the first INIT line has recorded a start
C14_Witness ==
    /\ pc = "scan"
    /\ n_lines = 4
    /\ n_init = 2
    /\ last = "init"
    /\ app_id \in DOMAIN dict_to_plot
    /\ Len(dict_to_plot[app_id].startTimeStages) = 1
    /\ Len(dict_to_plot[app_id].dealineTimeStages) = 1
    /\ Len(dict_to_plot[app_id].finishTimeStages) = 0

\* C15: the current application id changes only when a registration or a SEND NEEDED
\* line is read; every other line read (task-finished, submission, stage-finished, INIT,
\* or a line matching no event) leaves it unchanged and changes no stage map and no plot
\* series of an application other than the current one.
C15_OneCurrentApplication ==
    [][/\ app_id' # app_id => (n_lines' = n_lines + 1 /\ last' \in {"connected", "needed"})
       /\ (n_lines' = n_lines + 1 /\ last' \notin {"connected", "needed"})
          => /\ DOMAIN app_info' \ {app_id} = DOMAIN app_info \ {app_id}
             /\ DOMAIN dict_to_plot' \ {app_id} = DOMAIN dict_to_plot \ {app_id}
             /\ \A a \in DOMAIN app_info \ {app_id} : app_info'[a] = app_info[a]
             /\ \A a \in DOMAIN dict_to_plot \ {app_id} : dict_to_plot'[a] = dict_to_plot[a]]_vars

\* C15 witness: a submission has just been recorded under the second application
\* registered, and the first one still has the stage submitted under it
C15_Witness ==
    /\ pc = "scan"
    /\ last = "submitting"
    /\ app_id \in DOMAIN app_info
    /\ DOMAIN app_info[app_id] # {}
    /\ \E a \in DOMAIN app_info \ {app_id} : DOMAIN app_info[a] # {}

(***************************************************************************)
(* Events of load_worker_data                                              *)
(***************************************************************************)
\* C16: a well-formed allocation-created line with stage id s, read while the current
\* application is A, does not end the scan and leaves an entry (A, s) whose core series
\* ends with the line's core count and whose real-speedup series ends with 0.0, whatever
\* was read before (also when s is the stage id last seen under the previous application).
C16_CreatedLeavesEntry ==
    [][\A line \in WorkerLines :
        ( /\ Created(line)
          /\ CanInt(At(line, 8))
          /\ CanFloat(StripNL(At(line, -1)))
          /\ CanDatetime(At(line, 1)) )
        => LET s == PyInt(At(line, 8)) IN
            /\ w_pc' # "aborted"
            /\ w_app_id' = w_app_id
            /\ w_app_id \in DOMAIN worker_dict'
            /\ s \in DOMAIN worker_dict'[w_app_id]
            /\ LET st == worker_dict'[w_app_id][s] IN
                /\ Len(st.cpu) > 0
                /\ st.cpu[Len(st.cpu)] = PyFloat(StripNL(At(line, -1)))
                /\ Len(st.sp_real) > 0
                /\ st.sp_real[Len(st.sp_real)] = 0]_vars

\* the case of C16 the code keeps: the stage id differs from the one seen last
CreatedWithNewStageLeavesEntry ==
    [][\A line \in WorkerLines :
        ( /\ Created(line)
          /\ CanInt(At(line, 8))
          /\ CanFloat(StripNL(At(line, -1)))
          /\ CanDatetime(At(line, 1))
          /\ PyInt(At(line, 8)) # sid )
        => /\ w_pc' # "aborted"
           /\ worker_dict'[w_app_id][PyInt(At(line, 8))]
                  = [cpu |-> <<PyFloat(StripNL(At(line, -1)))>>,
                     time |-> <<string_to_datetime(At(line, 1))>>,
                     sp_real |-> <<0>>,
                     sp |-> <<0>>]]_vars

\* C17: a scale line naming an application that has no entry in the worker record (it was
\* not seen before) is skipped without ending the scan: the current application is not
\* switched to it and no entry is created for it.
C17_UnseenApplicationSkipped ==
    [][\A line \in WorkerLines :
        ( /\ Scaled(line)
          /\ HasIdx(line, 10)
          /\ At(line, 10) \notin DOMAIN worker_dict )
        => /\ w_pc' # "aborted"
           /\ w_app_id' = w_app_id
           /\ worker_dict' = worker_dict]_vars

\* what the code does instead: every scale line naming an application other than the
\* current one switches to it and gives it an empty entry
ScaledAlwaysSwitches ==
    [][\A line \in WorkerLines :
        ( /\ Scaled(line)
          /\ HasIdx(line, 10)
          /\ At(line, 10) # w_app_id )
        => /\ w_pc' # "aborted"
           /\ w_app_id' = At(line, 10)
           /\ w_app_id' \in DOMAIN worker_dict'
           /\ worker_dict'[w_app_id'] = EmptyDict]_vars

\* C18: a core-reallocation, real-speedup or progress line read while the current
\* application has no stage entry (no allocation-created line since the scale line that
\* selected it) is skipped: the worker record is unchanged and the scan is not ended.
C18_NoStageContextSkipped ==
    [][( /\ w_lines' = w_lines + 1
         /\ w_last' \in {"core", "real", "progress"}
         /\ w_app_id \in DOMAIN worker_dict
         /\ DOMAIN worker_dict[w_app_id] = {} )
       => /\ w_pc' # "aborted"
          /\ worker_dict' = worker_dict]_vars

(***************************************************************************)
(* The record load_worker_data returns                                     *)
(***************************************************************************)
\* the keys of worker_dict, as a set
KeysOf(keys) == {keys[i] : i \in 1..Len(keys)}

\* C19: the record load_worker_data returns always has the keys cpu_real and time_cpu,
\* with series of equal length, whatever the telemetry log: with no data line in it both
\* keys are present and their series are empty.
C19_GlobalSeriesPresent ==
    w_pc = "returned" =>
        /\ {"cpu_real", "time_cpu"} \subseteq KeysOf(worker_keys)
        /\ Len(cpu_real) = Len(time_cpu)

\* the part of C19 the code keeps: the two series returned have the same length, and
\* each key is present exactly when its series is not empty
GlobalSeriesPresentIfNonEmpty ==
    w_pc = "returned" =>
        /\ Len(cpu_real) = Len(time_cpu)
        /\ "cpu_real" \in KeysOf(worker_keys) <=> Len(cpu_real) > 0
        /\ "time_cpu" \in KeysOf(worker_keys) <=> Len(time_cpu) > 0

\* how many elements an event appends to a series of the entry it writes to
Appends(kind, kinds) == IF kind \in kinds THEN 1 ELSE 0

\* C20: while the scan has not been ended by an exception, every (application, stage)
\* entry of the worker record has time and sp series of the same length and cpu and
\* sp_real series of at least one element; an allocation-created line appends one element
\* to each of the four series of its entry (a new entry starts empty), a progress line one
\* to time and to sp, a core-reallocation line one to cpu only and a real-speedup line
\* one to sp_real only.
C20_SeriesLengths ==
    [][w_pc' # "aborted" =>
        /\ \A a \in DOMAIN worker_dict' : \A s \in DOMAIN worker_dict'[a] :
            /\ Len(worker_dict'[a][s].time) = Len(worker_dict'[a][s].sp)
            /\ Len(worker_dict'[a][s].cpu) >= 1
            /\ Len(worker_dict'[a][s].sp_real) >= 1
        /\ (w_lines' = w_lines + 1 /\ w_last' \in {"created", "core", "real", "progress"})
           => LET new == worker_dict'[w_app_id][sid']
                  old == IF sid' # sid THEN EmptyStage ELSE worker_dict[w_app_id][sid]
              IN
               /\ Len(new.cpu) = Len(old.cpu) + Appends(w_last', {"created", "core"})
               /\ Len(new.sp_real) = Len(old.sp_real) + Appends(w_last', {"created", "real"})
               /\ Len(new.time) = Len(old.time) + Appends(w_last', {"created", "progress"})
               /\ Len(new.sp) = Len(old.sp) + Appends(w_last', {"created", "progress"})]_vars

\* C20 witness: the record returned has an entry that an allocation-created line, a
\* core-reallocation line and a progress line have written to
C20_Witness ==
    /\ w_pc = "returned"
    /\ \E a \in DOMAIN worker_dict : \E s \in DOMAIN worker_dict[a] :
        /\ Len(worker_dict[a][s].cpu) = 2
        /\ Len(worker_dict[a][s].sp_real) = 1
        /\ Len(worker_dict[a][s].time) = 2
        /\ Len(worker_dict[a][s].sp) = 2

==========================================================================
